---- MODULE Spec2Model ----
(***************************************************************************)
(* Model of src/lib.rs: the binary16 value type f16, its narrowing         *)
(* conversions from_f32 / from_f64, its widening conversions to_f32 /      *)
(* to_f64, its classification predicates and its NaN-aware comparisons.    *)
(*                                                                         *)
(* Machine words are sequences of 16-bit limbs, most significant first:    *)
(* a u16 is <<w>>, a u32 is <<hi, lo>>, a u64 is <<w3, w2, w1, w0>>.       *)
(* An f32 / f64 is represented by its bit pattern (what mem::transmute     *)
(* yields), an f16 by the u16 it wraps.  The i32 / i64 temporaries of      *)
(* to_f32 / to_f64 are TLA+ integers: they stay within 0 .. 1038.          *)
(*                                                                         *)
(* u32 subtraction and addition are modelled with their width: an          *)
(* operation that leaves 0 .. 2^32-1 panics when the crate is built with   *)
(* overflow checks (the debug profile) and wraps modulo 2^32 otherwise     *)
(* (the release profile).  The build profile is the variable               *)
(* overflow_checks, chosen in the initial state.                           *)
(***************************************************************************)
EXTENDS Integers, Sequences, FiniteSets, TLC

VARIABLES
    overflow_checks,  \* TRUE: built with overflow checks (debug); FALSE: wrapping
    arg,              \* the input of the run: a typed value [ty, w]
    rhs,              \* the right operand of a comparison, or NoValue
    cur,              \* the value the last call returned (arg before any call)
    path,             \* the calls made so far, in order
    wrapped           \* some u32 operation of the run wrapped silently

vars == <<overflow_checks, arg, rhs, cur, path, wrapped>>

\* ------------------------------------------------------------------------
\* Machine words

W16 == 2^16

RECURSIVE BitAnd(_, _)
BitAnd(a, b) ==
    IF a = 0 \/ b = 0 THEN 0
    ELSE (a % 2) * (b % 2) + 2 * BitAnd(a \div 2, b \div 2)

RECURSIVE BitOr(_, _)
BitOr(a, b) ==
    IF a = 0 THEN b
    ELSE IF b = 0 THEN a
    ELSE (IF a % 2 = 1 \/ b % 2 = 1 THEN 1 ELSE 0) + 2 * BitOr(a \div 2, b \div 2)

\* limb j of word a, counted from the least significant (0); 0 outside the word
Limb(a, j) == IF j < 0 \/ j >= Len(a) THEN 0 ELSE a[Len(a) - j]

\* the integer n (two's complement when negative) as a word of k limbs
Word(n, k) ==
    [i \in 1..k |->
        IF k - i = 0 THEN n % W16
        ELSE IF k - i = 1 THEN (n \div W16) % W16
        ELSE IF n < 0 THEN W16 - 1 ELSE 0]

U32(n) == Word(n, 2)
U64(n) == Word(n, 4)

\* a & b, a | b on words of the same width
And(a, b) == [i \in 1..Len(a) |-> BitAnd(a[i], b[i])]
Or(a, b) == [i \in 1..Len(a) |-> BitOr(a[i], b[i])]

\* a >> k and a << k on a word, 0 <= k < width (bits shifted out are lost)
Shr(a, k) ==
    LET n == Len(a)
        q == k \div 16
        r == k % 16
    IN  [i \in 1..n |->
            (Limb(a, (n - i) + q) \div 2^r)
            + (Limb(a, (n - i) + q + 1) % 2^r) * 2^(16 - r)]

Shl(a, k) ==
    LET n == Len(a)
        q == k \div 16
        r == k % 16
    IN  [i \in 1..n |->
            (Limb(a, (n - i) - q) % 2^(16 - r)) * 2^r
            + (Limb(a, (n - i) - q - 1) \div 2^(16 - r))]

\* `as u16` of a u32, `as u32` / `as u64` of a u16
AsU16(a) == a[Len(a)]
AsU32(h) == <<0, h>>
AsU64(h) == <<0, 0, 0, h>>

\* the high word of a u64: (val >> 32) as u32
HighU32(val) == <<Shr(val, 32)[3], Shr(val, 32)[4]>>

\* a small u32 as an integer (its low limb; the callers hold hi = 0)
ToNat(a) == a[Len(a)]

IsZero(a) == \A i \in 1..Len(a) : a[i] = 0

\* u32 comparison
Lt32(a, b) == a[1] < b[1] \/ (a[1] = b[1] /\ a[2] < b[2])
Ge32(a, b) == ~Lt32(a, b)
Le32(a, b) == ~Lt32(b, a)
Gt32(a, b) == Lt32(b, a)

\* u32 a - b and a + b: the value modulo 2^32, and whether the true result
\* leaves 0 .. 2^32-1 (a panic under overflow checks)
WrappingSub(a, b) ==
    LET lo == a[2] - b[2]
        hi == a[1] - b[1] + (lo \div W16)
    IN  <<hi % W16, lo % W16>>

SubOverflows(a, b) == a[1] - b[1] + ((a[2] - b[2]) \div W16) < 0

WrappingAdd(a, b) ==
    LET lo == a[2] + b[2]
        hi == a[1] + b[1] + (lo \div W16)
    IN  <<hi % W16, lo % W16>>

AddOverflows(a, b) == a[1] + b[1] + ((a[2] + b[2]) \div W16) >= W16

\* ------------------------------------------------------------------------
\* Constants of the crate (bit patterns of f16 values)

EPSILON == \H1700
INFINITY == \H7C00
MAX == \H7BFF
MIN == \HFBFF
MIN_POSITIVE == \H0400
NAN == \HFE00
NEG_INFINITY == \HFC00

\* ------------------------------------------------------------------------
\* f16::from_f32 and f16::from_f64.  The result is [bits, ovf]: the u16 the
\* function returns when u32 arithmetic wraps, and whether some u32
\* operation on the way overflowed.

Ret(bits) == [bits |-> bits, ovf |-> FALSE]
RetOvf(bits, ovf) == [bits |-> bits, ovf |-> ovf]

\* the exponent overflow test of from_f32 / from_f64: half_exp >= 0x1F
ExpOffByOne(half_exp) == Gt32(half_exp, U32(\H1F))
ExpOverflows(half_exp) == Ge32(half_exp, U32(\H1F))

from_f32(x) ==
    IF IsZero(And(x, <<\H7FFF, \HFFFF>>)) THEN Ret(AsU16(Shr(x, 16)))
    ELSE
    LET sign == And(x, <<\H8000, \H0000>>)
        exp  == And(x, <<\H7F80, \H0000>>)
        man  == And(x, <<\H007F, \HFFFF>>)
    IN
    IF IsZero(exp) THEN Ret(AsU16(Shr(sign, 16)))
    ELSE IF exp = <<\H7F80, \H0000>> THEN
        IF IsZero(man) THEN Ret(AsU16(Or(Shr(x, 16), U32(\H7C00))))
        ELSE Ret(NAN)
    ELSE
    LET half_sign == Shr(sign, 16)
        unbiased_exp == WrappingSub(Shr(exp, 23), U32(127))
        half_exp == WrappingAdd(unbiased_exp, U32(15))
        ovf1 == \/ SubOverflows(Shr(exp, 23), U32(127))
                \/ AddOverflows(unbiased_exp, U32(15))
    IN
    IF ExpOverflows(half_exp) THEN
        RetOvf(AsU16(Or(half_sign, U32(\H7C00))), ovf1)
    ELSE IF Le32(half_exp, U32(0)) THEN
        IF Gt32(WrappingSub(U32(14), half_exp), U32(24)) THEN
            RetOvf(AsU16(half_sign), ovf1 \/ SubOverflows(U32(14), half_exp))
        ELSE
        LET man1 == Or(man, <<\H0080, \H0000>>)
            shifted == Shr(man1, ToNat(WrappingSub(U32(14), half_exp)) % 32)
            round == ~IsZero(And(Shr(man1, ToNat(WrappingSub(U32(13), half_exp)) % 32),
                                 U32(1)))
            half_man == IF round THEN WrappingAdd(shifted, U32(1)) ELSE shifted
        IN  RetOvf(AsU16(Or(half_sign, half_man)),
                   \/ ovf1
                   \/ SubOverflows(U32(14), half_exp)
                   \/ SubOverflows(U32(13), half_exp)
                   \/ (round /\ AddOverflows(shifted, U32(1))))
    ELSE
    LET half_exp1 == Shl(half_exp, 10)
        half_man == Shr(man, 13)
        word == Or(Or(half_sign, half_exp1), half_man)
    IN
    IF ~IsZero(And(man, <<\H0000, \H1000>>)) THEN
        RetOvf(AsU16(WrappingAdd(word, U32(1))),
               ovf1 \/ AddOverflows(word, U32(1)))
    ELSE RetOvf(AsU16(word), ovf1)

from_f64(val) ==
    LET x == HighU32(val) IN
    IF IsZero(And(x, <<\H7FFF, \HFFFF>>)) THEN Ret(AsU16(Shr(x, 16)))
    ELSE
    LET sign == And(x, <<\H8000, \H0000>>)
        exp  == And(x, <<\H7FF0, \H0000>>)
        man  == And(x, <<\H000F, \HFFFF>>)
    IN
    IF IsZero(exp) THEN Ret(AsU16(Shr(sign, 16)))
    ELSE IF exp = <<\H7FF0, \H0000>> THEN
        IF IsZero(man) THEN Ret(AsU16(Or(Shr(x, 16), U32(\H7C00))))
        ELSE Ret(NAN)
    ELSE
    LET half_sign == Shr(sign, 16)
        unbiased_exp == WrappingSub(Shr(exp, 20), U32(1023))
        half_exp == WrappingAdd(unbiased_exp, U32(15))
        ovf1 == \/ SubOverflows(Shr(exp, 20), U32(1023))
                \/ AddOverflows(unbiased_exp, U32(15))
    IN
    IF ExpOverflows(half_exp) THEN
        RetOvf(AsU16(Or(half_sign, U32(\H7C00))), ovf1)
    ELSE IF Le32(half_exp, U32(0)) THEN
        IF Gt32(WrappingSub(U32(10), half_exp), U32(21)) THEN
            RetOvf(AsU16(half_sign), ovf1 \/ SubOverflows(U32(10), half_exp))
        ELSE
        LET man1 == Or(man, <<\H0010, \H0000>>)
            shifted == Shr(man1, ToNat(WrappingSub(U32(11), half_exp)) % 32)
            round == ~IsZero(And(Shr(man1, ToNat(WrappingSub(U32(10), half_exp)) % 32),
                                 U32(1)))
            half_man == IF round THEN WrappingAdd(shifted, U32(1)) ELSE shifted
        IN  RetOvf(AsU16(Or(half_sign, half_man)),
                   \/ ovf1
                   \/ SubOverflows(U32(11), half_exp)
                   \/ SubOverflows(U32(10), half_exp)
                   \/ (round /\ AddOverflows(shifted, U32(1))))
    ELSE
    LET half_exp1 == Shl(half_exp, 10)
        half_man == Shr(man, 10)
        word == Or(Or(half_sign, half_exp1), half_man)
    IN
    IF ~IsZero(And(man, <<\H0000, \H0200>>)) THEN
        RetOvf(AsU16(WrappingAdd(word, U32(1))),
               ovf1 \/ AddOverflows(word, U32(1)))
    ELSE RetOvf(AsU16(word), ovf1)

\* ------------------------------------------------------------------------
\* f16::to_f32 and f16::to_f64: the bit pattern of the wide value returned

\* the loop of to_f32 / to_f64 that counts the exponent adjustment
\* (hm_adj never exceeds 0x0400: it is held as an integer)
RECURSIVE e_adj_loop(_, _)
e_adj_loop(e_adj, hm_adj) ==
    IF BitAnd(hm_adj, \H0400) = 0
    THEN e_adj_loop(e_adj + 1, hm_adj * 2)
    ELSE e_adj

to_f32(self) ==
    IF BitAnd(self, \H7FFF) = 0 THEN Shl(AsU32(self), 16)
    ELSE
    LET half_sign == AsU32(BitAnd(self, \H8000))
        half_exp  == AsU32(BitAnd(self, \H7C00))
        half_man  == AsU32(BitAnd(self, \H03FF))
    IN
    IF half_exp = U32(\H7C00) THEN
        IF IsZero(half_man) THEN Or(Shl(half_sign, 16), <<\H7F80, \H0000>>)
        ELSE <<\HFFC0, \H0000>>
    ELSE
    LET sign == Shl(half_sign, 16)
        unbiased_exp == (ToNat(half_exp) \div 2^10) - 15
        man == Shl(And(half_man, U32(\H03FF)), 13)
    IN
    IF IsZero(half_exp) THEN
        LET e == e_adj_loop(0, ToNat(half_man) * 2)
            exp == Shl(U32(unbiased_exp + 127 - e), 23)
        IN  Or(Or(sign, exp), man)
    ELSE
        LET exp == Shl(U32(unbiased_exp + 127), 23)
        IN  Or(Or(sign, exp), man)

to_f64(self) ==
    IF BitAnd(self, \H7FFF) = 0 THEN Shl(AsU64(self), 48)
    ELSE
    LET half_sign == AsU64(BitAnd(self, \H8000))
        half_exp  == AsU64(BitAnd(self, \H7C00))
        half_man  == AsU64(BitAnd(self, \H03FF))
    IN
    IF half_exp = U64(\H7C00) THEN
        IF IsZero(half_man)
        THEN Or(Shl(half_sign, 48), <<\H7FF0, \H0000, \H0000, \H0000>>)
        ELSE <<\HFFF8, \H0000, \H0000, \H0000>>
    ELSE
    LET sign == Shl(half_sign, 48)
        unbiased_exp == (ToNat(half_exp) \div 2^10) - 15
        man == Shl(And(half_man, U64(\H03FF)), 42)
    IN
    IF IsZero(half_exp) THEN
        LET e == e_adj_loop(0, ToNat(half_man) * 2)
            exp == Shl(U64(unbiased_exp + 1023 - e), 52)
        IN  Or(Or(sign, exp), man)
    ELSE
        LET exp == Shl(U64(unbiased_exp + 1023), 52)
        IN  Or(Or(sign, exp), man)

\* ------------------------------------------------------------------------
\* Predicates, equality and ordering on the wrapped u16

is_nan(self) == BitAnd(self, \H7C00) = \H7C00 /\ BitAnd(self, \H03FF) # 0

eq(self, other) == ~is_nan(self) /\ ~is_nan(other) /\ self = other

partial_cmp(self, other) ==
    IF is_nan(self) \/ is_nan(other) THEN "None"
    ELSE IF self = other THEN "Equal"
    ELSE IF self < other THEN "Less"
    ELSE "Greater"

lt_ignoring_nan(self, other) == self < other
lt(self, other) == ~is_nan(self) /\ ~is_nan(other) /\ self < other
le(self, other) == ~is_nan(self) /\ ~is_nan(other) /\ self <= other
gt(self, other) == ~is_nan(self) /\ ~is_nan(other) /\ self > other
ge(self, other) == ~is_nan(self) /\ ~is_nan(other) /\ self >= other

\* ------------------------------------------------------------------------
\* Values held by the state

F16(bits) == [ty |-> "f16", w |-> <<bits>>]
F32(x) == [ty |-> "f32", w |-> x]
F64(val) == [ty |-> "f64", w |-> val]
Bool(b) == [ty |-> "bool", w |-> <<IF b THEN 1 ELSE 0>>]
Ordering(o) == [ty |-> o, w |-> <<>>]
Panic == [ty |-> "panic", w |-> <<>>]
NoValue == [ty |-> "none", w |-> <<>>]

\* f16::from_bits and f16::as_bits
from_bits(bits) == F16(bits)
as_bits(v) == v.w[1]

\* ------------------------------------------------------------------------
\* Inputs

\* how far the sampled fields reach from each boundary value
ManSpread == 1
\* how many calls a run chains
MaxCalls == 2

\* the f32 with sign s, exponent field e and mantissa m
MkF32(s, e, m) == <<s * 2^15 + e * 2^7 + (m \div W16), m % W16>>
\* the f64 with sign s, exponent field e, upper 20 mantissa bits m and lower 32 bits lo
MkF64(s, e, m, lo) == <<s * 2^15 + e * 2^4 + (m \div W16), m % W16, lo[1], lo[2]>>
\* the f16 pattern with sign s, exponent field e and mantissa m
MkF16(s, e, m) == s * 2^15 + e * 2^10 + m

Top10 == (0..ManSpread) \cup ((1023 - ManSpread)..1023) \cup {512}
Low13 == (0..ManSpread) \cup ((4096 - ManSpread)..(4096 + ManSpread))
            \cup ((8191 - ManSpread)..8191)
Low10 == (0..ManSpread) \cup ((512 - ManSpread)..(512 + ManSpread))
            \cup ((1023 - ManSpread)..1023)
Low32 == {U32(k) : k \in 0..ManSpread}

Fields32 == (0..ManSpread) \cup ((255 - ManSpread)..255) \cup (100..144) \cup {94}
Fields64 == (0..ManSpread) \cup ((2047 - ManSpread)..2047) \cup (996..1040)

\* 2.0e-10, 70000.0 and their negations
NamedF32 == {<<\H2F5B, \HE6FF>>, <<\HAF5B, \HE6FF>>, <<\H4788, \HB800>>, <<\HC788, \HB800>>}

InputsF32 ==
    {MkF32(s, e, t * 2^13 + l) : s \in 0..1, e \in Fields32, t \in Top10, l \in Low13}
    \cup NamedF32

InputsF64 ==
    {MkF64(s, e, t * 2^10 + l, lo) : s \in 0..1, e \in Fields64, t \in Top10,
                                     l \in Low10, lo \in Low32}

HalfMans == (0..ManSpread) \cup ((1023 - ManSpread)..1023) \cup {2^k : k \in 0..9}

InputsF16 ==
    {MkF16(s, e, m) : s \in 0..1, e \in 0..31, m \in HalfMans}
    \cup {EPSILON, INFINITY, MAX, MIN, MIN_POSITIVE, NAN, NEG_INFINITY}

CmpOperands ==
    {MkF16(s, e, m) : s \in 0..1, e \in {0, 1, 30, 31},
                      m \in (0..ManSpread) \cup ((1023 - ManSpread)..1023)}
    \cup {NAN}

\* ------------------------------------------------------------------------
\* Initial states: one per input and build profile

InitNarrow ==
    /\ overflow_checks \in BOOLEAN
    /\ arg \in {F32(x) : x \in InputsF32} \cup {F64(v) : v \in InputsF64}
    /\ rhs = NoValue
    /\ cur = arg
    /\ path = <<>>
    /\ wrapped = FALSE

InitWiden ==
    /\ overflow_checks \in BOOLEAN
    /\ arg \in {from_bits(b) : b \in InputsF16}
    /\ rhs = NoValue
    /\ cur = arg
    /\ path = <<>>
    /\ wrapped = FALSE

InitCmp ==
    /\ overflow_checks \in BOOLEAN
    /\ arg \in {from_bits(b) : b \in CmpOperands}
    /\ rhs \in {from_bits(b) : b \in CmpOperands}
    /\ cur = arg
    /\ path = <<>>
    /\ wrapped = FALSE

Init == InitNarrow \/ InitWiden \/ InitCmp

\* ------------------------------------------------------------------------
\* Calls

\* what a narrowing call leaves: a panic under overflow checks when a u32
\* operation overflowed, the wrapped result otherwise
Narrowed(r, op) ==
    /\ cur' = IF overflow_checks /\ r.ovf THEN Panic ELSE F16(r.bits)
    /\ wrapped' = (wrapped \/ (r.ovf /\ ~overflow_checks))
    /\ path' = Append(path, op)
    /\ UNCHANGED <<overflow_checks, arg, rhs>>

FromF32 ==
    /\ cur.ty = "f32"
    /\ Len(path) < MaxCalls
    /\ Narrowed(from_f32(cur.w), "from_f32")

FromF64 ==
    /\ cur.ty = "f64"
    /\ Len(path) < MaxCalls
    /\ Narrowed(from_f64(cur.w), "from_f64")

Returned(v, op) ==
    /\ cur' = v
    /\ path' = Append(path, op)
    /\ UNCHANGED <<overflow_checks, arg, rhs, wrapped>>

ToF32 ==
    /\ cur.ty = "f16"
    /\ Len(path) < MaxCalls
    /\ Returned(F32(to_f32(as_bits(cur))), "to_f32")

ToF64 ==
    /\ cur.ty = "f16"
    /\ Len(path) < MaxCalls
    /\ Returned(F64(to_f64(as_bits(cur))), "to_f64")

CanCompare == cur.ty = "f16" /\ rhs.ty = "f16" /\ Len(path) < MaxCalls

Eq == CanCompare /\ Returned(Bool(eq(as_bits(cur), as_bits(rhs))), "eq")
PartialCmp ==
    CanCompare /\ Returned(Ordering(partial_cmp(as_bits(cur), as_bits(rhs))), "partial_cmp")
Lt == CanCompare /\ Returned(Bool(lt(as_bits(cur), as_bits(rhs))), "lt")
Le == CanCompare /\ Returned(Bool(le(as_bits(cur), as_bits(rhs))), "le")
Gt == CanCompare /\ Returned(Bool(gt(as_bits(cur), as_bits(rhs))), "gt")
Ge == CanCompare /\ Returned(Bool(ge(as_bits(cur), as_bits(rhs))), "ge")

Next ==
    \/ FromF32 \/ FromF64
    \/ ToF32 \/ ToF64
    \/ Eq \/ PartialCmp \/ Lt \/ Le \/ Gt \/ Ge

Spec == Init /\ [][Next]_vars

TypeOK ==
    /\ overflow_checks \in BOOLEAN
    /\ cur.ty \in {"f16", "f32", "f64", "bool", "None", "Less", "Equal", "Greater", "panic"}
    /\ \A i \in 1..Len(cur.w) : cur.w[i] \in 0..(W16 - 1)
    /\ Len(path) <= MaxCalls

\* ------------------------------------------------------------------------
\* The IEEE-754 reading of the bit patterns, used to state the properties

HalfSign(b) == b \div 2^15
HalfExp(b) == (b \div 2^10) % 2^5
HalfMant(b) == b % 2^10
HalfIsNaN(b) == HalfExp(b) = 31 /\ HalfMant(b) # 0

Sign32(x) == x[1] \div 2^15
Field32(x) == (x[1] \div 2^7) % 2^8
Mant32(x) == (x[1] % 2^7) * W16 + x[2]
\* |x| as a u32: for finite patterns, ordered as the magnitudes are
Abs32(x) == <<x[1] % 2^15, x[2]>>

Sign64(v) == v[1] \div 2^15
Field64(v) == (v[1] \div 2^4) % 2^11
\* the upper 20 and the lower 32 bits of the 52-bit mantissa
Mant64Hi(v) == (v[1] % 2^4) * W16 + v[2]
Mant64Lo(v) == <<v[3], v[4]>>

\* A value: (-1)^neg * sig * 2^exp2 with sig odd (or zero), an infinity, or a
\* NaN.  `low` holds the lower 32 mantissa bits of an f64 that has some set
\* (such a value has more than 21 significant bits).
RECURSIVE Dyadic(_, _, _)
Dyadic(neg, sig, exp2) ==
    IF sig = 0 THEN [kind |-> "finite", neg |-> neg, sig |-> 0, exp2 |-> 0, low |-> <<0, 0>>]
    ELSE IF sig % 2 = 0 THEN Dyadic(neg, sig \div 2, exp2 + 1)
    ELSE [kind |-> "finite", neg |-> neg, sig |-> sig, exp2 |-> exp2, low |-> <<0, 0>>]

Infinite(neg) == [kind |-> "infinite", neg |-> neg, sig |-> 0, exp2 |-> 0, low |-> <<0, 0>>]
NotANumber == [kind |-> "nan", neg |-> FALSE, sig |-> 0, exp2 |-> 0, low |-> <<0, 0>>]

ValueF16(b) ==
    IF HalfExp(b) = 31 THEN
        IF HalfMant(b) = 0 THEN Infinite(HalfSign(b) = 1) ELSE NotANumber
    ELSE IF HalfExp(b) = 0 THEN Dyadic(HalfSign(b) = 1, HalfMant(b), -24)
    ELSE Dyadic(HalfSign(b) = 1, 2^10 + HalfMant(b), HalfExp(b) - 25)

ValueF32(x) ==
    IF Field32(x) = 255 THEN
        IF Mant32(x) = 0 THEN Infinite(Sign32(x) = 1) ELSE NotANumber
    ELSE IF Field32(x) = 0 THEN Dyadic(Sign32(x) = 1, Mant32(x), -149)
    ELSE Dyadic(Sign32(x) = 1, 2^23 + Mant32(x), Field32(x) - 150)

ValueF64(v) ==
    IF Field64(v) = 2047 THEN
        IF Mant64Hi(v) = 0 /\ Mant64Lo(v) = <<0, 0>> THEN Infinite(Sign64(v) = 1)
        ELSE NotANumber
    ELSE IF Mant64Lo(v) # <<0, 0>> THEN
        [kind |-> "finite", neg |-> Sign64(v) = 1, sig |-> Mant64Hi(v),
         exp2 |-> Field64(v), low |-> Mant64Lo(v)]
    ELSE IF Field64(v) = 0 THEN Dyadic(Sign64(v) = 1, Mant64Hi(v), -1042)
    ELSE Dyadic(Sign64(v) = 1, 2^20 + Mant64Hi(v), Field64(v) - 1043)

\* the f16 zero and infinity of sign s
SignedZero(s) == F16(s * 2^15)
SignedInfinity(s) == F16(s * 2^15 + \H7C00)

Narrowed32 == arg.ty = "f32" /\ path = <<"from_f32">>
Narrowed64 == arg.ty = "f64" /\ path = <<"from_f64">>

\* ------------------------------------------------------------------------
\* Properties

\* C1: widening a non-NaN f16 and narrowing the result gives back the same
\* bit pattern, through f32 and through f64: from_f32(to_f32(b)) = b and
\* from_f64(to_f64(b)) = b for zeros, subnormals, normals and infinities.
C1_RoundTrip ==
    (/\ arg.ty = "f16"
     /\ ~HalfIsNaN(as_bits(arg))
     /\ path \in {<<"to_f32", "from_f32">>, <<"to_f64", "from_f64">>})
    => cur = arg

\* C2: widening is exact: for a non-NaN f16 the pattern that to_f32 and
\* to_f64 return encodes the very value the f16 encodes.
C2_WideningExact ==
    /\ (arg.ty = "f16" /\ ~HalfIsNaN(as_bits(arg)) /\ path = <<"to_f32">>)
        => ValueF32(cur.w) = ValueF16(as_bits(arg))
    /\ (arg.ty = "f16" /\ ~HalfIsNaN(as_bits(arg)) /\ path = <<"to_f64">>)
        => ValueF64(cur.w) = ValueF16(as_bits(arg))

\* a nonzero finite f32 of magnitude below 2^-24, the smallest f16 subnormal
BelowSmallestSubnormal(x) == Field32(x) <= 102 /\ ~IsZero(Abs32(x))

\* C3: from_f32 of a nonzero finite input of magnitude below 2^-24 returns the
\* zero of the input's sign (0x0000 or 0x8000), never an infinity or a
\* nonzero value.
C3_UnderflowToSignedZero ==
    (Narrowed32 /\ BelowSmallestSubnormal(arg.w)) => cur = SignedZero(Sign32(arg.w))

\* C4: from_f32 / from_f64 of an input whose exponent field is all ones
\* returns the infinity of the input's sign when the whole source mantissa
\* (23 bits, all 52 bits) is zero and the canonical NaN 0xFE00 otherwise.
C4_InfinityNaNNarrowing ==
    /\ (Narrowed32 /\ Field32(arg.w) = 255)
        => cur = IF Mant32(arg.w) = 0 THEN SignedInfinity(Sign32(arg.w)) ELSE F16(NAN)
    /\ (Narrowed64 /\ Field64(arg.w) = 2047)
        => cur = IF Mant64Hi(arg.w) = 0 /\ Mant64Lo(arg.w) = <<0, 0>>
                 THEN SignedInfinity(Sign64(arg.w)) ELSE F16(NAN)

\* C5: from_f32 and from_f64 return a 16-bit value for every input, and no
\* u32 operation on the way leaves 0 .. 2^32-1 (none panics, none wraps).
C5_NoArithmeticFault ==
    (Narrowed32 \/ Narrowed64) => (cur.ty = "f16" /\ ~wrapped)

\* C6: for a finite f32 input, from_f32 returns 0x7BFF (with the input's sign)
\* when the magnitude is in [65504, 65520), the infinity of the input's sign
\* when it is >= 65520, and never a NaN pattern.
C6_MaxFiniteBoundary ==
    (Narrowed32 /\ Field32(arg.w) < 255) =>
        /\ (Ge32(Abs32(arg.w), <<\H477F, \HE000>>) /\ Lt32(Abs32(arg.w), <<\H477F, \HF000>>))
            => cur = F16(Sign32(arg.w) * 2^15 + MAX)
        /\ Ge32(Abs32(arg.w), <<\H477F, \HF000>>)
            => cur = SignedInfinity(Sign32(arg.w))
        /\ ~(cur.ty = "f16" /\ HalfIsNaN(as_bits(cur)))

\* from_f32(65520.0) has returned +infinity: the rounding carry went through
\* exponent 30
C6_Witness ==
    /\ arg = F32(<<\H477F, \HF000>>)
    /\ path = <<"from_f32">>
    /\ cur = F16(INFINITY)

\* the ordering of two non-NaN patterns: that of the raw u16
BitOrder(a, b) == IF a = b THEN "Equal" ELSE IF a < b THEN "Less" ELSE "Greater"
Unordered(a, b) == HalfIsNaN(a) \/ HalfIsNaN(b)

\* C7: eq is true iff neither operand is NaN and the bits are equal;
\* partial_cmp is None iff an operand is NaN and otherwise the unsigned order
\* of the bits; lt, le, gt, ge are true exactly when partial_cmp gives Less,
\* Less or Equal, Greater, Greater or Equal: false whenever a NaN is involved.
C7_Comparisons ==
    (Len(path) = 1 /\ rhs.ty = "f16") =>
        LET a == as_bits(arg)
            b == as_bits(rhs)
            o == partial_cmp(a, b)
        IN  /\ path = <<"eq">> => cur = Bool(~Unordered(a, b) /\ a = b)
            /\ path = <<"partial_cmp">> =>
                cur = Ordering(IF Unordered(a, b) THEN "None" ELSE BitOrder(a, b))
            /\ path = <<"lt">> => cur = Bool(o = "Less")
            /\ path = <<"le">> => cur = Bool(o \in {"Less", "Equal"})
            /\ path = <<"gt">> => cur = Bool(o = "Greater")
            /\ path = <<"ge">> => cur = Bool(o \in {"Greater", "Equal"})
            /\ (Unordered(a, b) /\ path[1] \in {"eq", "lt", "le", "gt", "ge"})
                => cur = Bool(FALSE)

\* NaN has been compared with +infinity by lt, and the answer was false
C7_Witness ==
    /\ arg = F16(INFINITY)
    /\ rhs = F16(NAN)
    /\ path = <<"lt">>
    /\ cur = Bool(FALSE)

\* the gap between 1.0 (0x3C00) and the next f16 above it (0x3C01)
UlpOfOne ==
    Dyadic(FALSE, (2^10 + HalfMant(\H3C01)) - (2^10 + HalfMant(\H3C00)),
           HalfExp(\H3C00) - 25)

\* C8: EPSILON is the binary16 machine epsilon: widened, its value is 2^-10,
\* the difference between the values of 0x3C01 and 0x3C00.
C8_EpsilonIsMachineEpsilon ==
    /\ (arg = F16(EPSILON) /\ path = <<"to_f32">>)
        => (ValueF32(cur.w) = Dyadic(FALSE, 1, -10) /\ ValueF32(cur.w) = UlpOfOne)
    /\ (arg = F16(EPSILON) /\ path = <<"to_f64">>)
        => (ValueF64(cur.w) = Dyadic(FALSE, 1, -10) /\ ValueF64(cur.w) = UlpOfOne)

\* the subnormal mantissa of a significand (hidden bit set) shifted right by
\* `shift`, rounded up when the bit just below the kept field is set
ShiftRound(full, shift) == (full \div 2^shift) + ((full \div 2^(shift - 1)) % 2)

\* C9: for a normal f32 whose rebiased exponent h = field - 112 is <= 0,
\* from_f32 returns sign | M with M = ((mantissa | 0x800000) >> (14 - h)) plus
\* one when bit 13 - h is set, and the signed zero when 14 - h exceeds 24; for
\* from_f64 the same with the upper 20 mantissa bits, the hidden bit 0x100000
\* and the shift 11 - h (h = field - 1008).
C9_SubnormalNarrowing ==
    /\ (Narrowed32 /\ Field32(arg.w) \in 1..112) =>
        LET h == Field32(arg.w) - 112
        IN  cur = IF 14 - h > 24 THEN SignedZero(Sign32(arg.w))
                  ELSE F16(Sign32(arg.w) * 2^15
                           + ShiftRound(2^23 + Mant32(arg.w), 14 - h))
    /\ (Narrowed64 /\ Field64(arg.w) \in 998..1008) =>
        LET h == Field64(arg.w) - 1008
        IN  cur = F16(Sign64(arg.w) * 2^15
                      + ShiftRound(2^20 + Mant64Hi(arg.w), 11 - h))

\* the magnitude of the f16 pattern b in units of 2^(field - 150), the unit of
\* the last place of an f32 of exponent field `field`; b's exponent is that of
\* the input or, after a rounding carry, one more (a carry out of exponent 30
\* gives the pattern 0x7C00, read here as 2^16)
HalfInUnits(b, field) ==
    IF HalfExp(b) = field - 112 THEN (2^10 + HalfMant(b)) * 2^13
    ELSE IF HalfExp(b) = field - 111 THEN (2^10 + HalfMant(b)) * 2^14
    ELSE -1

\* C10: for an f32 with exponent field E in 113..142 and mantissa m, from_f32
\* returns (sign >> 16 | (E - 112) << 10 | m >> 13) plus one when bit 12 of m
\* is set; that value is within half an f16 unit in the last place of the
\* input, and the result has the input's sign.
C10_NormalRounding ==
    (Narrowed32 /\ Field32(arg.w) \in 113..142) =>
        LET x == arg.w
            E == Field32(x)
            m == Mant32(x)
            expected == Sign32(x) * 2^15 + (E - 112) * 2^10 + (m \div 2^13)
                        + ((m \div 2^12) % 2)
        IN  /\ cur = F16(expected)
            /\ HalfSign(as_bits(cur)) = Sign32(x)
            /\ HalfInUnits(as_bits(cur), E) # -1
            /\ HalfInUnits(as_bits(cur), E) - (2^23 + m) \in (0 - 2^12)..(2^12)

====
